---- MODULE Spec2Model ----
(***************************************************************************)
(* BLE sniffer capture pipeline (customer_app/suas_app_ble_sniffer):       *)
(*   - parse_advertisement_data : the AD-structure decoder                 *)
(*   - g_packet_buffer          : the drop-oldest ring of ble_packet_t     *)
(*   - sniffer_on_packet_received_ex, scanner_device_found : the producer  *)
(*   - sniffer_task             : the consumer                             *)
(*   - sniffer_get_stats        : the statistics accessor                  *)
(* Arrays of the C structs are kept as sequences with their trailing zero  *)
(* elements trimmed: element k of an array a is At(a, k), and every        *)
(* element past Len(a) is 0.                                               *)
(***************************************************************************)
EXTENDS Integers, Sequences, FiniteSets, TLC

(* ------------------------------------------------------------------ *)
(* Program constants                                                    *)
(* ------------------------------------------------------------------ *)
SNIFFER_BUFFER_SIZE == 200
AD_TYPE_FLAGS == 1
AD_TYPE_UUID16_INCOMPLETE == 2
AD_TYPE_UUID16_COMPLETE == 3
AD_TYPE_SHORT_NAME == 8
AD_TYPE_COMPLETE_NAME == 9
AD_TYPE_TX_POWER == 10
AD_TYPE_APPEARANCE == 25
AD_TYPE_MFG_DATA == 255
BLE_SCAN_RSP == 4
DEVICE_NAME_SIZE == 32
MFG_DATA_SIZE == 64
SERVICE_UUIDS_SIZE == 8
TX_POWER_NOT_PRESENT == -128
FIRST_ADV_CHANNEL == 37
UINT8_RANGE == 256
UINT16_RANGE == 65536
PAYLOAD_SIZE == 255

(* ------------------------------------------------------------------ *)
(* Bounds of the model                                                  *)
(* ------------------------------------------------------------------ *)
MaxRawLen == 4
MaxItems == 3
MaxPushes == 203
MaxPops == 2
MaxRejects == 1
MaxRejectTime == 1
MaxExcess == 2
MaxLegacyTimes == 2
MaxFairLen == 3

(* The null pointer, as a value no byte sequence equals. *)
NULL == <<-1>>

Max(a, b) == IF a >= b THEN a ELSE b

(* ------------------------------------------------------------------ *)
(* C arrays                                                             *)
(* ------------------------------------------------------------------ *)
(* An array with its trailing `zero` elements dropped. *)
RECURSIVE TrimZ(_, _)
TrimZ(s, zero) ==
    IF s = <<>> THEN <<>>
    ELSE IF s[Len(s)] = zero THEN TrimZ(SubSeq(s, 1, Len(s) - 1), zero)
    ELSE s

AtZ(a, k, zero) == IF k < Len(a) THEN a[k + 1] ELSE zero

StoreZ(a, k, v, zero) ==
    TrimZ([j \in 1..Max(Len(a), k + 1) |-> IF j = k + 1 THEN v ELSE AtZ(a, j - 1, zero)],
          zero)

Trim(s) == TrimZ(s, 0)

At(a, k) == AtZ(a, k, 0)

Store(a, k, v) == StoreZ(a, k, v, 0)

(* memcpy(dst, src, n): the first n elements of dst become src[0..n-1]. *)
Memcpy(dst, src, n) ==
    Trim([j \in 1..Max(Len(dst), n) |-> IF j <= n THEN src[j] ELSE dst[j]])

(* The C string held in a char array: the bytes before the first NUL. *)
RECURSIVE CStr(_)
CStr(a) ==
    IF a = <<>> \/ a[1] = 0 THEN <<>> ELSE <<a[1]>> \o CStr(Tail(a))

ToInt8(b) == IF b >= 128 THEN b - UINT8_RANGE ELSE b

LE16_Swapped(lo, hi) == (hi + lo * UINT8_RANGE) % UINT16_RANGE

(* ad_data[0] | (ad_data[1] << 8), stored in a uint16_t. *)
LE16(lo, hi) == (lo + hi * UINT8_RANGE) % UINT16_RANGE

(* ------------------------------------------------------------------ *)
(* ble_packet_t                                                         *)
(* ------------------------------------------------------------------ *)
ZeroPacket ==
    [mac |-> <<>>, rssi |-> 0, channel |-> 0, timestamp |-> 0,
     payload_len |-> 0, payload |-> <<>>, device_name |-> <<>>,
     adv_type |-> 0, addr_type |-> 0, tx_power |-> 0, appearance |-> 0,
     flags |-> 0, company_id |-> 0, mfg_data |-> <<>>, mfg_data_len |-> 0,
     service_uuids |-> <<>>, num_services |-> 0]

(* ------------------------------------------------------------------ *)
(* parse_advertisement_data                                             *)
(* ------------------------------------------------------------------ *)
(* payload[k].  An index at or past payload_len is outside the buffer   *)
(* the caller described: the byte read there is whatever memory holds,  *)
(* `beyond`.                                                            *)
Rd(payload, payload_len, beyond, k) ==
    IF k < payload_len /\ k < Len(payload) THEN payload[k + 1] ELSE beyond

(* "Initialize optional fields" *)
InitOptionalFields(packet) ==
    [packet EXCEPT !.device_name = Store(@, 0, 0),
                   !.tx_power = TX_POWER_NOT_PRESENT,
                   !.appearance = 0,
                   !.flags = 0,
                   !.company_id = 0,
                   !.mfg_data_len = 0,
                   !.num_services = 0]

(* while (i < payload_len - 1) *)
LoopCond(i, payload_len) == i < payload_len - 1

(* if (ad_len == 0 || (i + ad_len) > payload_len) break; *)
BreakCond(i, ad_len, payload_len) ==
    ad_len = 0 \/ (i + ad_len) > payload_len

RECURSIVE UuidLoop_NoCap(_, _, _, _, _, _, _)
UuidLoop_NoCap(payload, payload_len, beyond, base, j, num_uuids, r) ==
    IF j < num_uuids
    THEN UuidLoop_NoCap(payload, payload_len, beyond, base, j + 1, num_uuids,
             [packet |-> [r.packet EXCEPT
                            !.service_uuids =
                                Store(@, r.packet.num_services,
                                      LE16(Rd(payload, payload_len, beyond, base + j * 2),
                                           Rd(payload, payload_len, beyond, base + j * 2 + 1))),
                            !.num_services = (@ + 1) % UINT8_RANGE],
              reads |-> r.reads \cup {base + j * 2, base + j * 2 + 1}])
    ELSE r

(* for (j = 0; j < num_uuids && packet->num_services < 8; j++) *)
RECURSIVE UuidLoop(_, _, _, _, _, _, _)
UuidLoop(payload, payload_len, beyond, base, j, num_uuids, r) ==
    IF j < num_uuids /\ r.packet.num_services < SERVICE_UUIDS_SIZE
    THEN UuidLoop(payload, payload_len, beyond, base, j + 1, num_uuids,
             [packet |-> [r.packet EXCEPT
                            !.service_uuids =
                                Store(@, r.packet.num_services,
                                      LE16(Rd(payload, payload_len, beyond, base + j * 2),
                                           Rd(payload, payload_len, beyond, base + j * 2 + 1))),
                            !.num_services = (@ + 1) % UINT8_RANGE],
              reads |-> r.reads \cup {base + j * 2, base + j * 2 + 1}])
    ELSE r

(* The switch (ad_type) of one AD structure at offset i: the packet     *)
(* after it and the payload indices it read.                            *)
ApplyEntry(payload, payload_len, beyond, i, packet) ==
    LET ad_len == Rd(payload, payload_len, beyond, i)
        ad_type == Rd(payload, payload_len, beyond, i + 1)
        base == i + 2
        D(k) == Rd(payload, payload_len, beyond, base + k)
        ad_data_len == (ad_len - 1) % UINT8_RANGE
        hdr == {i, i + 1}
    IN
    CASE ad_type = AD_TYPE_FLAGS ->
           IF ad_data_len >= 1
           THEN [packet |-> [packet EXCEPT !.flags = D(0)],
                 reads |-> hdr \cup {base}]
           ELSE [packet |-> packet, reads |-> hdr]
      [] ad_type \in {AD_TYPE_SHORT_NAME, AD_TYPE_COMPLETE_NAME} ->
           LET copy_len == IF ad_data_len < DEVICE_NAME_SIZE - 1
                           THEN ad_data_len ELSE DEVICE_NAME_SIZE - 1
           IN [packet |-> [packet EXCEPT !.device_name =
                             Store(Memcpy(@, [k \in 1..copy_len |-> D(k - 1)], copy_len),
                                   copy_len, 0)],
               reads |-> hdr \cup {base + k : k \in 0..(copy_len - 1)}]
      [] ad_type = AD_TYPE_TX_POWER ->
           IF ad_data_len >= 1
           THEN [packet |-> [packet EXCEPT !.tx_power = ToInt8(D(0))],
                 reads |-> hdr \cup {base}]
           ELSE [packet |-> packet, reads |-> hdr]
      [] ad_type = AD_TYPE_APPEARANCE ->
           IF ad_data_len >= 2
           THEN [packet |-> [packet EXCEPT !.appearance = LE16(D(0), D(1))],
                 reads |-> hdr \cup {base, base + 1}]
           ELSE [packet |-> packet, reads |-> hdr]
      [] ad_type \in {AD_TYPE_UUID16_INCOMPLETE, AD_TYPE_UUID16_COMPLETE} ->
           UuidLoop(payload, payload_len, beyond, base, 0, ad_data_len \div 2,
                    [packet |-> packet, reads |-> hdr])
      [] ad_type = AD_TYPE_MFG_DATA ->
           IF ad_data_len >= 2
           THEN LET mfg_len == IF ad_data_len - 2 > MFG_DATA_SIZE
                               THEN MFG_DATA_SIZE ELSE ad_data_len - 2
                IN [packet |-> [packet EXCEPT
                                  !.company_id = LE16(D(0), D(1)),
                                  !.mfg_data = Memcpy(@, [k \in 1..mfg_len |-> D(k + 1)], mfg_len),
                                  !.mfg_data_len = mfg_len],
                    reads |-> hdr \cup {base, base + 1}
                                  \cup {base + 2 + k : k \in 0..(mfg_len - 1)}]
           ELSE [packet |-> packet, reads |-> hdr]
      [] OTHER -> [packet |-> packet, reads |-> hdr]

ParseStep_NoAdvance(payload, payload_len, beyond, s) ==
    IF ~LoopCond(s.i, payload_len)
    THEN [s EXCEPT !.done = TRUE]
    ELSE LET ad_len == Rd(payload, payload_len, beyond, s.i)
         IN IF BreakCond(s.i, ad_len, payload_len)
            THEN [s EXCEPT !.done = TRUE, !.reads = @ \cup {s.i}, !.n = @ + 1]
            ELSE LET r == ApplyEntry(payload, payload_len, beyond, s.i, s.packet)
                 IN [i |-> s.i,
                     packet |-> r.packet,
                     reads |-> s.reads \cup r.reads,
                     done |-> FALSE,
                     n |-> s.n + 1]

(* One evaluation of the while loop's condition and, when it holds, one  *)
(* pass through its body.  s = [i, packet, reads, done, n]: n counts the *)
(* passes through the body made so far.                                  *)
ParseStep(payload, payload_len, beyond, s) ==
    IF ~LoopCond(s.i, payload_len)
    THEN [s EXCEPT !.done = TRUE]
    ELSE LET ad_len == Rd(payload, payload_len, beyond, s.i)
         IN IF BreakCond(s.i, ad_len, payload_len)
            THEN [s EXCEPT !.done = TRUE, !.reads = @ \cup {s.i}, !.n = @ + 1]
            ELSE LET r == ApplyEntry(payload, payload_len, beyond, s.i, s.packet)
                 IN [i |-> s.i + ad_len + 1,
                     packet |-> r.packet,
                     reads |-> s.reads \cup r.reads,
                     done |-> FALSE,
                     n |-> s.n + 1]

RECURSIVE ParseLoop(_, _, _, _)
ParseLoop(payload, payload_len, beyond, s) ==
    IF s.done THEN s
    ELSE ParseLoop(payload, payload_len, beyond,
                   ParseStep(payload, payload_len, beyond, s))

ParseStart(packet) ==
    [i |-> 0, packet |-> InitOptionalFields(packet), reads |-> {}, done |-> FALSE,
     n |-> 0]

(* The whole function: the packet it leaves in *packet. *)
parse_advertisement_data(payload, payload_len, beyond, packet) ==
    IF payload = NULL \/ payload_len = 0
    THEN packet
    ELSE ParseLoop(payload, payload_len, beyond, ParseStart(packet)).packet

(* What the byte in memory after the payload can hold. *)
BeyondBytes == 0..(UINT8_RANGE - 1)

(* The payload indices the decoder reads in its first `passes` passes   *)
(* through the loop, from loop state s on.                              *)
RECURSIVE ReadsWithin(_, _, _, _)
ReadsWithin(payload, payload_len, s, passes) ==
    IF s.done \/ passes = 0 THEN s.reads
    ELSE ReadsWithin(payload, payload_len, ParseStep(payload, payload_len, 0, s),
                     passes - 1)

(* Whether the decoder reads payload[payload_len].  The entry headers   *)
(* it reads lie below payload_len (line 72), so the indices it reads    *)
(* are the same whatever that byte holds; an entry takes two bytes or   *)
(* more (lines 75 and 138), so payload_len \div 2 passes over entries   *)
(* and one pass that ends the loop are all there can be.                *)
ReadsBeyond(payload, payload_len) ==
    /\ payload # NULL
    /\ payload_len > 0
    /\ payload_len \in ReadsWithin(payload, payload_len, ParseStart(ZeroPacket),
                                   payload_len \div 2 + 2)

(* The contents of the byte after the payload that make executions      *)
(* differ: every byte value when the decoder reads it, and one value    *)
(* standing for all of them when it does not.                           *)
BeyondChoices(payload, payload_len) ==
    IF ReadsBeyond(payload, payload_len) THEN BeyondBytes ELSE {0}

(* ------------------------------------------------------------------ *)
(* packet_buffer_t g_packet_buffer                                      *)
(* ------------------------------------------------------------------ *)
(* static packet_buffer_t g_packet_buffer = {0};  packets[] is kept    *)
(* with its trailing all-zero slots trimmed.                            *)
ZeroBuffer ==
    [packets |-> <<>>, head |-> 0, tail |-> 0, count |-> 0,
     overflow_count |-> 0, packet_count |-> 0]

Slot(b, k) == AtZ(b.packets, k, ZeroPacket)

Enqueue_NoEvict(b, packet) ==
    LET b1 == IF b.count >= SNIFFER_BUFFER_SIZE
              THEN [b EXCEPT !.overflow_count = @ + 1]
              ELSE [b EXCEPT !.count = (@ + 1) % UINT16_RANGE]
    IN [b1 EXCEPT !.packets = StoreZ(@, b1.head, packet, ZeroPacket),
                  !.head = (@ + 1) % SNIFFER_BUFFER_SIZE,
                  !.packet_count = @ + 1]

Enqueue_NoLimit(b, packet) ==
    [b EXCEPT !.count = (@ + 1) % UINT16_RANGE,
              !.packets = StoreZ(@, b.head, packet, ZeroPacket),
              !.head = (@ + 1) % SNIFFER_BUFFER_SIZE,
              !.packet_count = @ + 1]

Enqueue_NoWrap(b, packet) ==
    LET b1 == IF b.count >= SNIFFER_BUFFER_SIZE
              THEN [b EXCEPT !.overflow_count = @ + 1,
                             !.tail = (@ + 1) % SNIFFER_BUFFER_SIZE]
              ELSE [b EXCEPT !.count = (@ + 1) % UINT16_RANGE]
    IN [b1 EXCEPT !.packets = StoreZ(@, b1.head, packet, ZeroPacket),
                  !.head = (@ + 1) % UINT16_RANGE,
                  !.packet_count = @ + 1]

Enqueue_CountAccepted(b, packet) ==
    LET b1 == IF b.count >= SNIFFER_BUFFER_SIZE
              THEN [b EXCEPT !.overflow_count = @ + 1,
                             !.tail = (@ + 1) % SNIFFER_BUFFER_SIZE,
                             !.packet_count = @ - 1]
              ELSE [b EXCEPT !.count = (@ + 1) % UINT16_RANGE]
    IN [b1 EXCEPT !.packets = StoreZ(@, b1.head, packet, ZeroPacket),
                  !.head = (@ + 1) % SNIFFER_BUFFER_SIZE,
                  !.packet_count = @ + 1]

Enqueue_Torn(b, packet) ==
    LET b1 == IF b.count >= SNIFFER_BUFFER_SIZE
              THEN [b EXCEPT !.overflow_count = @ + 1,
                             !.tail = (@ + 1) % SNIFFER_BUFFER_SIZE]
              ELSE [b EXCEPT !.count = (@ + 1) % UINT16_RANGE]
        old == Slot(b, b1.head)
    IN [b1 EXCEPT !.packets = StoreZ(@, b1.head,
                                  [packet EXCEPT !.device_name = old.device_name,
                                                 !.flags = old.flags],
                                  ZeroPacket),
                  !.head = (@ + 1) % SNIFFER_BUFFER_SIZE,
                  !.packet_count = @ + 1]

(* The body of sniffer_enqueue_packet between taskENTER_CRITICAL and    *)
(* taskEXIT_CRITICAL.  overflow_count and packet_count are uint32_t:    *)
(* they wrap at 2^32, past every count the bounds here allow.           *)
Enqueue(b, packet) ==
    LET b1 == IF b.count >= SNIFFER_BUFFER_SIZE
              THEN [b EXCEPT !.overflow_count = @ + 1,
                             !.tail = (@ + 1) % SNIFFER_BUFFER_SIZE]
              ELSE [b EXCEPT !.count = (@ + 1) % UINT16_RANGE]
    IN [b1 EXCEPT !.packets = StoreZ(@, b1.head, packet, ZeroPacket),
                  !.head = (@ + 1) % SNIFFER_BUFFER_SIZE,
                  !.packet_count = @ + 1]

Dequeue_KeepTail(b, packet) ==
    IF b.count > 0
    THEN [buf |-> [b EXCEPT !.count = (@ - 1) % UINT16_RANGE],
          packet |-> Slot(b, b.tail),
          result |-> 1]
    ELSE [buf |-> b, packet |-> packet, result |-> 0]

Dequeue_KeepCount(b, packet) ==
    IF b.count > 0
    THEN [buf |-> [b EXCEPT !.tail = (@ + 1) % SNIFFER_BUFFER_SIZE],
          packet |-> Slot(b, b.tail),
          result |-> 1]
    ELSE [buf |-> b, packet |-> packet, result |-> 0]

Dequeue_ZeroOnEmpty(b, packet) ==
    IF b.count > 0
    THEN [buf |-> [b EXCEPT !.tail = (@ + 1) % SNIFFER_BUFFER_SIZE,
                            !.count = (@ - 1) % UINT16_RANGE],
          packet |-> Slot(b, b.tail),
          result |-> 1]
    ELSE [buf |-> b, packet |-> ZeroPacket, result |-> 0]

(* The body of sniffer_dequeue_packet between taskENTER_CRITICAL and    *)
(* taskEXIT_CRITICAL: the buffer after it, *packet and the result.      *)
Dequeue(b, packet) ==
    IF b.count > 0
    THEN [buf |-> [b EXCEPT !.tail = (@ + 1) % SNIFFER_BUFFER_SIZE,
                            !.count = (@ - 1) % UINT16_RANGE],
          packet |-> Slot(b, b.tail),
          result |-> 1]
    ELSE [buf |-> b, packet |-> packet, result |-> 0]

(* ------------------------------------------------------------------ *)
(* sniffer_on_packet_received_ex                                        *)
(* ------------------------------------------------------------------ *)
Rejects_IgnoreLen(a) == a.mac = NULL \/ a.payload = NULL

(* if (!mac || !payload || payload_len == 0) return; *)
Rejects(a) == a.mac = NULL \/ a.payload = NULL \/ a.payload_len = 0

BuildPacket_NoAddrType(a) ==
    parse_advertisement_data(a.payload, a.payload_len, a.beyond,
        [ZeroPacket EXCEPT
            !.mac = Memcpy(<<>>, a.mac, 6),
            !.rssi = a.rssi,
            !.channel = a.channel,
            !.timestamp = a.timestamp,
            !.payload_len = a.payload_len,
            !.adv_type = a.adv_type,
            !.payload = Memcpy(<<>>, a.payload, a.payload_len)])

(* Lines 202-221: the local packet after "Copy basic fields", the       *)
(* payload memcpy and parse_advertisement_data.                         *)
BuildPacket(a) ==
    parse_advertisement_data(a.payload, a.payload_len, a.beyond,
        [ZeroPacket EXCEPT
            !.mac = Memcpy(<<>>, a.mac, 6),
            !.rssi = a.rssi,
            !.channel = a.channel,
            !.timestamp = a.timestamp,
            !.payload_len = a.payload_len,
            !.adv_type = a.adv_type,
            !.addr_type = a.addr_type,
            !.payload = Memcpy(<<>>, a.payload, a.payload_len)])

(* The whole of sniffer_on_packet_received_ex as one step on the buffer: *)
(* the early return, or the record built and pushed.                    *)
sniffer_on_packet_received_ex(b, a) ==
    IF Rejects(a) THEN b ELSE Enqueue(b, BuildPacket(a))

LegacyArgs_AdvType1(mac, rssi, channel, timestamp, payload, payload_len, beyond) ==
    [mac |-> mac, rssi |-> rssi, channel |-> channel, timestamp |-> timestamp,
     payload |-> payload, payload_len |-> payload_len, beyond |-> beyond,
     adv_type |-> 1, addr_type |-> 0]

(* Lines 192-193: the arguments sniffer_on_packet_received hands on. *)
LegacyArgs(mac, rssi, channel, timestamp, payload, payload_len, beyond) ==
    [mac |-> mac, rssi |-> rssi, channel |-> channel, timestamp |-> timestamp,
     payload |-> payload, payload_len |-> payload_len, beyond |-> beyond,
     adv_type |-> 0, addr_type |-> 0]

(* Lines 188-194 *)
sniffer_on_packet_received(b, mac, rssi, channel, timestamp, payload, payload_len, beyond) ==
    sniffer_on_packet_received_ex(b,
        LegacyArgs(mac, rssi, channel, timestamp, payload, payload_len, beyond))

(* ------------------------------------------------------------------ *)
(* State                                                                *)
(* ------------------------------------------------------------------ *)
VARIABLES
    g_packet_buffer,    \* sniffer.c: static packet_buffer_t g_packet_buffer
    g_adv_count,        \* scanner.c statistics
    g_scan_rsp_count,
    g_current_channel,
    now_ms,             \* xTaskGetTickCount() * portTICK_PERIOD_MS
    critical,           \* who is between taskENTER_CRITICAL and taskEXIT_CRITICAL
    pcP, argsP, packetP,            \* producer: the ingest callback
    pcC, packetC, resultC,          \* consumer: sniffer_task
    pcS, statsS,                    \* a caller of sniffer_get_stats
    pcM,                \* main.c aos_loop_proc: the startup call it is about to make
    serial_out,         \* the record lines written to the serial port, in order
    h_pushed,           \* history: timestamps of the records pushed, in order
    h_delivered,        \* history: timestamps of the records pop returned, in order
    h_evicted,          \* history: timestamps of the records evicted by a push
    h_full_pushes,      \* history: pushes made with the buffer at capacity
    h_rejects,          \* history: broadcasts the scanner passed on with no data
    h_scanner_calls,    \* history: calls of ingest made by scanner_device_found
    h_beyond,           \* history: <<t, b>> for the broadcasts at time t whose byte
                        \*   after the payload, holding b, the decoder reads
    h_legacy,           \* history: timestamps of the calls of sniffer_on_packet_received
    pa_payload, pa_len, pa_beyond,  \* decoder run alone: its inputs,
    pa_prior, pa_items,             \*   the record it was given, the fields encoded,
    pa_s, pa_pc                     \*   its loop state and position

ringVars == <<g_packet_buffer, g_adv_count, g_scan_rsp_count, g_current_channel,
              now_ms, critical, pcP, argsP, packetP, pcC, packetC, resultC,
              pcS, statsS, pcM, serial_out, h_pushed, h_delivered, h_evicted,
              h_full_pushes, h_rejects, h_scanner_calls, h_beyond,
              h_legacy>>

parseVars == <<pa_payload, pa_len, pa_beyond, pa_prior, pa_items, pa_s, pa_pc>>

vars == <<ringVars, parseVars>>

(* ------------------------------------------------------------------ *)
(* The broadcasts the radio reports: all but the byte after the payload *)
(* is a fixed function of k, so that every record pushed is told apart  *)
(* by its timestamp.  The broadcast at TruncatedAt is a truncated one:  *)
(* a flags entry whose value lies one byte past the payload.            *)
(* ------------------------------------------------------------------ *)
SamplePayloads ==
    << <<2, 1, 6, 3, 9, 65, 66>>,
       <<2, 1, 6, 5, 1, 6>>,
       <<2, 10, 251>>,
       <<3, 3, 15, 24>>,
       <<2, 1, 26>> >>

TruncatedPayload == <<2, 1>>

TruncatedAt == MaxPushes

ObsPayload(k) ==
    IF k = TruncatedAt THEN TruncatedPayload
    ELSE SamplePayloads[(k % Len(SamplePayloads)) + 1]

ObsMac(k) == <<170, 187, 204, 221, 238, k % UINT8_RANGE>>

ObsRssi(k) == -60 - (k % 3)

ObsAdvType(k) == k % 5

ObsAddrType(k) == k % 2

NoArgs ==
    [mac |-> NULL, rssi |-> 0, channel |-> 0, timestamp |-> 0, payload |-> NULL,
     payload_len |-> 0, beyond |-> 0, adv_type |-> 0, addr_type |-> 0]

NoStats == [total |-> -1, overflow |-> -1, count |-> -1]

(* ------------------------------------------------------------------ *)
(* Critical sections (FreeRTOS taskENTER_CRITICAL / taskEXIT_CRITICAL) *)
(* ------------------------------------------------------------------ *)
(* An actor runs only while no other actor is inside a critical section. *)
CanRun(actor) == critical \in {"none", actor}

taskENTER_CRITICAL(actor) == actor

taskEXIT_CRITICAL_Held(actor) == actor

taskEXIT_CRITICAL(actor) == "none"

(* ------------------------------------------------------------------ *)
(* Producer                                                             *)
(* ------------------------------------------------------------------ *)
consumerVars == <<pcC, packetC, resultC>>

mainVars == <<pcM, serial_out>>

statsVars == <<pcS, statsS>>

scannerVars == <<g_adv_count, g_scan_rsp_count, g_current_channel>>

historyVars == <<h_pushed, h_delivered, h_evicted, h_full_pushes>>

(* The contents of the byte after the payload that matter to a call of *)
(* ingest: the call returns before decoding when it rejects.            *)
CallBeyond(mac, payload, payload_len) ==
    IF mac = NULL THEN {0} ELSE BeyondChoices(payload, payload_len)

(* h_beyond after a call at time t that found b after the payload. *)
NoteBeyond(h, t, mac, payload, payload_len, b) ==
    IF mac # NULL /\ ReadsBeyond(payload, payload_len)
    THEN h \cup {<<t, b>>} ELSE h

(* scanner_device_found with addr == NULL or ad == NULL, lines 53-54:  *)
(* the test is true and the callback is about to return.               *)
ScannerNullArg_Counts(which) ==
    /\ pcM = "run"
    /\ pcP = "idle" /\ CanRun("P")
    /\ which \in {"addr", "ad"}
    /\ pcP' = IF which = "addr" THEN "null_addr" ELSE "null_ad"
    /\ g_adv_count' = g_adv_count + 1
    /\ UNCHANGED <<g_packet_buffer, g_scan_rsp_count, g_current_channel, now_ms,
                   critical, argsP, packetP, consumerVars, statsVars, historyVars,
                   h_rejects, h_scanner_calls, h_beyond, h_legacy, mainVars, parseVars>>

ScannerNullArg(which) ==
    /\ pcM = "run"
    /\ pcP = "idle" /\ CanRun("P")
    /\ which \in {"addr", "ad"}
    /\ pcP' = IF which = "addr" THEN "null_addr" ELSE "null_ad"
    /\ UNCHANGED <<g_packet_buffer, scannerVars, now_ms, critical, argsP, packetP,
                   consumerVars, statsVars, historyVars, h_rejects, h_scanner_calls, h_beyond, h_legacy,
                   mainVars, parseVars>>

(* Line 54: the return of that callback. *)
ScannerNullReturn ==
    /\ pcP \in {"null_addr", "null_ad"} /\ CanRun("P")
    /\ pcP' = "idle"
    /\ UNCHANGED <<g_packet_buffer, scannerVars, now_ms, critical, argsP, packetP,
                   consumerVars, statsVars, historyVars, h_rejects, h_scanner_calls, h_beyond, h_legacy,
                   mainVars, parseVars>>

(* scanner_device_found with both arguments present, up to and with the *)
(* call of sniffer_on_packet_received_ex.  data is "ok", "null" (ad->data *)
(* is NULL) or "empty" (ad->len is 0).                                  *)
ScannerDeviceFound(data) ==
    /\ pcM = "run"
    /\ pcP = "idle" /\ CanRun("P")
    /\ IF data = "ok" THEN Len(h_pushed) < MaxPushes
       ELSE h_rejects < MaxRejects /\ now_ms < MaxRejectTime
    /\ LET adv_type == ObsAdvType(now_ms)
           adv == IF adv_type = BLE_SCAN_RSP THEN g_adv_count ELSE g_adv_count + 1
           chan == FIRST_ADV_CHANNEL + (adv % 3)
           payload == IF data = "null" THEN NULL ELSE
                      IF data = "empty" THEN <<>> ELSE ObsPayload(now_ms)
           payload_len == IF data = "ok" THEN Len(ObsPayload(now_ms)) ELSE 0
       IN /\ g_scan_rsp_count' = IF adv_type = BLE_SCAN_RSP
                                 THEN g_scan_rsp_count + 1 ELSE g_scan_rsp_count
          /\ g_adv_count' = adv
          /\ g_current_channel' = chan
          /\ \E b \in CallBeyond(ObsMac(now_ms), payload, payload_len) :
                /\ argsP' = [mac |-> ObsMac(now_ms),
                             rssi |-> ObsRssi(now_ms),
                             channel |-> chan,
                             timestamp |-> now_ms,
                             payload |-> payload,
                             payload_len |-> payload_len,
                             beyond |-> b,
                             adv_type |-> adv_type,
                             addr_type |-> ObsAddrType(now_ms)]
                /\ h_beyond' = NoteBeyond(h_beyond, now_ms, ObsMac(now_ms), payload,
                                          payload_len, b)
    /\ now_ms' = now_ms + 1
    /\ h_rejects' = IF data = "ok" THEN h_rejects ELSE h_rejects + 1
    /\ h_scanner_calls' = h_scanner_calls + 1
    /\ pcP' = "ex"
    /\ UNCHANGED <<g_packet_buffer, critical, packetP, consumerVars, statsVars,
                   historyVars, h_legacy, mainVars, parseVars>>

(* Another caller of sniffer_on_packet_received_ex, with an argument the *)
(* function rejects: a null mac, a null payload or payload_len == 0.    *)
(* The call returns before the payload is read: what lies after it has  *)
(* no part in the call.                                                  *)
ApiIngestEx(bad) ==
    /\ pcM = "run"
    /\ pcP = "idle" /\ CanRun("P")
    /\ argsP' = [mac |-> IF bad = "mac" THEN NULL ELSE ObsMac(now_ms),
                 rssi |-> ObsRssi(now_ms),
                 channel |-> g_current_channel,
                 timestamp |-> now_ms,
                 payload |-> IF bad = "payload" THEN NULL ELSE ObsPayload(now_ms),
                 payload_len |-> IF bad = "len" THEN 0 ELSE Len(ObsPayload(now_ms)),
                 beyond |-> 0,
                 adv_type |-> ObsAdvType(now_ms),
                 addr_type |-> ObsAddrType(now_ms)]
    /\ pcP' = "ex"
    /\ UNCHANGED <<g_packet_buffer, scannerVars, now_ms, critical, packetP,
                   consumerVars, statsVars, historyVars, h_rejects, h_scanner_calls, h_beyond, h_legacy, mainVars, parseVars>>

(* sniffer_on_packet_received_ex, line 204: the early return. *)
IngestReject ==
    /\ pcP = "ex" /\ CanRun("P")
    /\ Rejects(argsP)
    /\ pcP' = "ex_return"
    /\ UNCHANGED <<g_packet_buffer, scannerVars, now_ms, critical, argsP, packetP,
                   consumerVars, statsVars, historyVars, h_rejects, h_scanner_calls, h_beyond, h_legacy, mainVars, parseVars>>

(* sniffer_on_packet_received_ex, lines 208-221: the local packet is built. *)
IngestBuild ==
    /\ pcP = "ex" /\ CanRun("P")
    /\ ~Rejects(argsP)
    /\ packetP' = BuildPacket(argsP)
    /\ pcP' = "enqueue"
    /\ UNCHANGED <<g_packet_buffer, scannerVars, now_ms, critical, argsP,
                   consumerVars, statsVars, historyVars, h_rejects, h_scanner_calls, h_beyond, h_legacy, mainVars, parseVars>>

(* sniffer_enqueue_packet, line 145 *)
EnqueueEnter ==
    /\ pcP = "enqueue" /\ CanRun("P")
    /\ critical' = taskENTER_CRITICAL("P")
    /\ pcP' = "enqueue_body"
    /\ UNCHANGED <<g_packet_buffer, scannerVars, now_ms, argsP, packetP,
                   consumerVars, statsVars, historyVars, h_rejects, h_scanner_calls, h_beyond, h_legacy, mainVars, parseVars>>

Outstanding == {h_pushed[k] : k \in 1..Len(h_pushed)}
                 \ ({h_delivered[k] : k \in 1..Len(h_delivered)} \cup h_evicted)

Oldest(S) == CHOOSE x \in S : \A y \in S : x <= y

(* sniffer_enqueue_packet, lines 147-156 *)
EnqueueBody ==
    /\ pcP = "enqueue_body" /\ CanRun("P")
    /\ g_packet_buffer' = Enqueue(g_packet_buffer, packetP)
    /\ h_pushed' = Append(h_pushed, packetP.timestamp)
    /\ IF Cardinality(Outstanding) = SNIFFER_BUFFER_SIZE
       THEN /\ h_evicted' = h_evicted \cup {Oldest(Outstanding)}
            /\ h_full_pushes' = h_full_pushes + 1
       ELSE UNCHANGED <<h_evicted, h_full_pushes>>
    /\ pcP' = "enqueue_exit"
    /\ UNCHANGED <<scannerVars, now_ms, critical, argsP, packetP, consumerVars,
                   statsVars, h_delivered, h_rejects, h_scanner_calls, h_beyond, h_legacy, mainVars, parseVars>>

(* sniffer_enqueue_packet, line 158 *)
EnqueueExit ==
    /\ pcP = "enqueue_exit" /\ CanRun("P")
    /\ critical' = taskEXIT_CRITICAL("P")
    /\ pcP' = "ex_return"
    /\ UNCHANGED <<g_packet_buffer, scannerVars, now_ms, argsP, packetP, consumerVars,
                   statsVars, historyVars, h_rejects, h_scanner_calls, h_beyond, h_legacy, mainVars, parseVars>>

(* sniffer_on_packet_received_ex returns (line 205 or line 224) and its *)
(* caller with it: the arguments and the local packet are gone.         *)
IngestReturn ==
    /\ pcP = "ex_return" /\ CanRun("P")
    /\ pcP' = "idle"
    /\ argsP' = NoArgs
    /\ packetP' = ZeroPacket
    /\ UNCHANGED <<g_packet_buffer, scannerVars, now_ms, critical, consumerVars,
                   statsVars, historyVars, h_rejects, h_scanner_calls, h_beyond, h_legacy, mainVars, parseVars>>

(* The times at which an old-style caller reports a broadcast: into the *)
(* nearly empty buffer and into the full one.                            *)
LegacyTimes == {(k - 1) * SNIFFER_BUFFER_SIZE + 1 : k \in 1..MaxLegacyTimes}

(* sniffer_on_packet_received called by an old-style caller, up to and *)
(* with its call of sniffer_on_packet_received_ex at line 192; the call *)
(* then goes on as every call of that function does.  bad is "none" or  *)
(* the argument that is missing: "mac", "payload" or "len".             *)
LegacyIngest(bad) ==
    /\ pcM = "run"
    /\ pcP = "idle" /\ CanRun("P")
    /\ now_ms \in LegacyTimes
    /\ LET mac == IF bad = "mac" THEN NULL ELSE ObsMac(now_ms)
           payload == IF bad = "payload" THEN NULL ELSE ObsPayload(now_ms)
           payload_len == IF bad = "len" THEN 0 ELSE Len(ObsPayload(now_ms))
       IN \E b \in CallBeyond(mac, payload, payload_len) :
             /\ argsP' = LegacyArgs(mac, ObsRssi(now_ms), g_current_channel, now_ms,
                                    payload, payload_len, b)
             /\ h_beyond' = NoteBeyond(h_beyond, now_ms, mac, payload, payload_len, b)
    /\ now_ms' = now_ms + 1
    /\ h_legacy' = h_legacy \cup {now_ms}
    /\ pcP' = "ex"
    /\ UNCHANGED <<g_packet_buffer, scannerVars, critical, packetP, consumerVars,
                   statsVars, historyVars, h_rejects, h_scanner_calls, mainVars,
                   parseVars>>

(* ------------------------------------------------------------------ *)
(* Consumer: sniffer_task                                               *)
(* ------------------------------------------------------------------ *)
producerVars == <<pcP, argsP, packetP>>

(* sniffer_send_packet_serial(packet): returns at once for a null       *)
(* packet; for any other packet its body is a comment, so the lines     *)
(* written so far are the lines written after the call.                 *)
sniffer_send_packet_serial(out, packet) == out

(* Line 267: sniffer_get_packet(&packet) with a non-null packet calls   *)
(* sniffer_dequeue_packet, whose first statement is line 165.           *)
DequeueEnter ==
    /\ pcC = "loop" /\ CanRun("C")
    /\ critical' = taskENTER_CRITICAL("C")
    /\ pcC' = "dequeue_body"
    /\ UNCHANGED <<g_packet_buffer, scannerVars, now_ms, producerVars, packetC,
                   resultC, statsVars, historyVars, h_rejects, h_scanner_calls, h_beyond, h_legacy, mainVars, parseVars>>

(* sniffer_dequeue_packet, lines 167-172 *)
DequeueBody ==
    /\ pcC = "dequeue_body" /\ CanRun("C")
    /\ g_packet_buffer.count > 0 => Len(h_delivered) < MaxPops
    /\ LET r == Dequeue(g_packet_buffer, packetC)
       IN /\ g_packet_buffer' = r.buf
          /\ packetC' = r.packet
          /\ resultC' = r.result
          /\ h_delivered' = IF r.result = 1
                            THEN Append(h_delivered, r.packet.timestamp)
                            ELSE h_delivered
    /\ pcC' = "dequeue_exit"
    /\ UNCHANGED <<scannerVars, now_ms, critical, producerVars, statsVars,
                   h_pushed, h_evicted, h_full_pushes, h_rejects, h_scanner_calls, h_beyond, h_legacy, mainVars, parseVars>>

(* sniffer_dequeue_packet, lines 174-176, and the branch of line 267. *)
DequeueExit ==
    /\ pcC = "dequeue_exit" /\ CanRun("C")
    /\ critical' = taskEXIT_CRITICAL("C")
    /\ pcC' = IF resultC = 1 THEN "send" ELSE "idle"
    /\ resultC' = 0
    /\ UNCHANGED <<g_packet_buffer, scannerVars, now_ms, producerVars, packetC,
                   statsVars, historyVars, h_rejects, h_scanner_calls, h_beyond, h_legacy, mainVars, parseVars>>

(* Lines 268-270: sniffer_send_packet_serial(&packet), which writes     *)
(* nothing, then vTaskDelay(pdMS_TO_TICKS(2)).                          *)
SendAndDelay ==
    /\ pcC = "send" /\ CanRun("C")
    /\ serial_out' = sniffer_send_packet_serial(serial_out, packetC)
    /\ pcC' = "status"
    /\ UNCHANGED <<g_packet_buffer, scannerVars, now_ms, critical, producerVars,
                   packetC, resultC, statsVars, historyVars, h_rejects, h_scanner_calls, h_beyond, h_legacy, pcM,
                   parseVars>>

(* Line 273: vTaskDelay(pdMS_TO_TICKS(20)) *)
IdleDelay ==
    /\ pcC = "idle" /\ CanRun("C")
    /\ pcC' = "status"
    /\ UNCHANGED <<g_packet_buffer, scannerVars, now_ms, critical, producerVars,
                   packetC, resultC, statsVars, historyVars, h_rejects, h_scanner_calls, h_beyond, h_legacy, mainVars,
                   parseVars>>

(* Line 278 with fewer than 10 s since the last status line. *)
StatusSkip ==
    /\ pcC = "status" /\ CanRun("C")
    /\ pcC' = "loop"
    /\ UNCHANGED <<g_packet_buffer, scannerVars, now_ms, critical, producerVars,
                   packetC, resultC, statsVars, historyVars, h_rejects, h_scanner_calls, h_beyond, h_legacy, mainVars,
                   parseVars>>

(* Lines 278-280 with the 10 s elapsed: the rate is computed from a read *)
(* of g_packet_buffer.packet_count.  The values the status line reads   *)
(* go to printf only; the model keeps where each read happens.          *)
StatusBegin ==
    /\ pcC = "status" /\ CanRun("C")
    /\ pcC' = "print"
    /\ UNCHANGED <<g_packet_buffer, scannerVars, now_ms, critical, producerVars,
                   packetC, resultC, statsVars, historyVars, h_rejects, h_scanner_calls, h_beyond, h_legacy, mainVars, parseVars>>

(* Lines 281-283: the arguments of printf read packet_count,           *)
(* overflow_count and count, none inside a critical section.            *)
StatusPrint ==
    /\ pcC = "print" /\ CanRun("C")
    /\ pcC' = "printed"
    /\ UNCHANGED <<g_packet_buffer, scannerVars, now_ms, critical, producerVars,
                   packetC, resultC, statsVars, historyVars, h_rejects, h_scanner_calls, h_beyond, h_legacy, mainVars, parseVars>>

(* Line 284 and the jump back to line 266. *)
StatusEnd ==
    /\ pcC = "printed" /\ CanRun("C")
    /\ pcC' = "loop"
    /\ UNCHANGED <<g_packet_buffer, scannerVars, now_ms, critical, producerVars,
                   packetC, resultC, statsVars, historyVars, h_rejects, h_scanner_calls, h_beyond, h_legacy, mainVars, parseVars>>

(* ------------------------------------------------------------------ *)
(* sniffer_get_stats, called with three non-null pointers              *)
(* ------------------------------------------------------------------ *)
GetStatsLock_Missing(actor) == "none"

(* Line 250 *)
GetStatsLock(actor) == taskENTER_CRITICAL(actor)

GetStatsEnter ==
    /\ pcM = "run"
    /\ pcS = "idle" /\ CanRun("S")
    /\ critical' = GetStatsLock("S")
    /\ statsS' = NoStats
    /\ pcS' = "total"
    /\ UNCHANGED <<g_packet_buffer, scannerVars, now_ms, producerVars, consumerVars,
                   historyVars, h_rejects, h_scanner_calls, h_beyond, h_legacy, mainVars, parseVars>>

(* Line 251 *)
GetStatsTotal ==
    /\ pcS = "total" /\ CanRun("S")
    /\ statsS' = [statsS EXCEPT !.total = g_packet_buffer.packet_count]
    /\ pcS' = "overflow"
    /\ UNCHANGED <<g_packet_buffer, scannerVars, now_ms, critical, producerVars,
                   consumerVars, historyVars, h_rejects, h_scanner_calls, h_beyond, h_legacy, mainVars, parseVars>>

(* Line 252 *)
GetStatsOverflow ==
    /\ pcS = "overflow" /\ CanRun("S")
    /\ statsS' = [statsS EXCEPT !.overflow = g_packet_buffer.overflow_count]
    /\ pcS' = "count"
    /\ UNCHANGED <<g_packet_buffer, scannerVars, now_ms, critical, producerVars,
                   consumerVars, historyVars, h_rejects, h_scanner_calls, h_beyond, h_legacy, mainVars, parseVars>>

(* Line 253 *)
GetStatsCount ==
    /\ pcS = "count" /\ CanRun("S")
    /\ statsS' = [statsS EXCEPT !.count = g_packet_buffer.count]
    /\ pcS' = "exit"
    /\ UNCHANGED <<g_packet_buffer, scannerVars, now_ms, critical, producerVars,
                   consumerVars, historyVars, h_rejects, h_scanner_calls, h_beyond, h_legacy, mainVars, parseVars>>

(* Line 254 and the return; the caller's three values are then used up. *)
GetStatsExit ==
    /\ pcS = "exit" /\ CanRun("S")
    /\ critical' = taskEXIT_CRITICAL("S")
    /\ pcS' = "idle"
    /\ statsS' = NoStats
    /\ UNCHANGED <<g_packet_buffer, scannerVars, now_ms, producerVars, consumerVars,
                   historyVars, h_rejects, h_scanner_calls, h_beyond, h_legacy, mainVars, parseVars>>

(* ------------------------------------------------------------------ *)
(* Startup: main.c aos_loop_proc, lines 93-100                          *)
(* ------------------------------------------------------------------ *)
SnifferInitMayRun_Anytime(pc) == pc \in {"sniffer_init", "run"}

(* sniffer_init has one call site, main.c line 94. *)
SnifferInitMayRun(pc) == pc = "sniffer_init"

(* sniffer_init, sniffer.c line 229: memset(&g_packet_buffer, 0, ...) *)
MainSnifferInit ==
    /\ SnifferInitMayRun(pcM) /\ CanRun("M")
    /\ g_packet_buffer' = ZeroBuffer
    /\ pcM' = IF pcM = "sniffer_init" THEN "create_task" ELSE pcM
    /\ UNCHANGED <<scannerVars, now_ms, critical, producerVars, consumerVars,
                   statsVars, historyVars, h_rejects, h_scanner_calls, h_beyond, h_legacy, serial_out, parseVars>>

(* sniffer_create_task, sniffer.c lines 294-300: xTaskCreateStatic makes *)
(* sniffer_task ready to run; its locals are initialized at lines 260-262. *)
MainCreateTask ==
    /\ pcM = "create_task" /\ CanRun("M")
    /\ pcC' = "loop" /\ packetC' = ZeroPacket /\ resultC' = 0
    /\ pcM' = "scanner_init"
    /\ UNCHANGED <<g_packet_buffer, scannerVars, now_ms, critical, producerVars,
                   statsVars, historyVars, h_rejects, h_scanner_calls, h_beyond, h_legacy, serial_out, parseVars>>

(* scanner_init, scanner.c lines 201-206: the counters are reset and the *)
(* scan is started with scanner_device_found as its callback.            *)
MainScannerInit ==
    /\ pcM = "scanner_init" /\ CanRun("M")
    /\ g_adv_count' = 0 /\ g_scan_rsp_count' = 0
    /\ pcM' = "run"
    /\ UNCHANGED <<g_packet_buffer, g_current_channel, now_ms, critical,
                   producerVars, consumerVars, statsVars, historyVars, h_rejects, h_scanner_calls, h_beyond, h_legacy,
                   serial_out, parseVars>>

MainNext ==
    \/ MainSnifferInit
    \/ MainCreateTask
    \/ MainScannerInit

(* ------------------------------------------------------------------ *)
(* The capture pipeline                                                 *)
(* ------------------------------------------------------------------ *)
ParseIdle ==
    /\ pa_payload = <<>> /\ pa_len = 0 /\ pa_beyond = 0
    /\ pa_prior = ZeroPacket /\ pa_items = <<>>
    /\ pa_s = [i |-> 0, packet |-> ZeroPacket, reads |-> {}, done |-> TRUE, n |-> 0]
    /\ pa_pc = "ret"

(* The program as aos_loop_proc reaches main.c line 94: the statics of *)
(* sniffer.c and scanner.c hold their initializers, sniffer_task is not *)
(* created yet and the scanner is not started.                          *)
RingInit ==
    /\ g_packet_buffer = ZeroBuffer
    /\ g_adv_count = 0 /\ g_scan_rsp_count = 0
    /\ g_current_channel = FIRST_ADV_CHANNEL
    /\ now_ms = 0
    /\ critical = "none"
    /\ pcP = "idle" /\ argsP = NoArgs /\ packetP = ZeroPacket
    /\ pcC = "not_created" /\ packetC = ZeroPacket /\ resultC = 0
    /\ pcS = "idle" /\ statsS = NoStats
    /\ pcM = "sniffer_init" /\ serial_out = <<>>
    /\ h_pushed = <<>> /\ h_delivered = <<>> /\ h_evicted = {}
    /\ h_full_pushes = 0 /\ h_rejects = 0 /\ h_scanner_calls = 0
    /\ h_beyond = {}
    /\ h_legacy = {}

Init == RingInit /\ ParseIdle

(* ------------------------------------------------------------------ *)
(* The decoder run alone, one loop iteration per step                   *)
(* ------------------------------------------------------------------ *)
RawBytes == {0, 1, 2, 3, 5, 6, 9}

RawPayloads == UNION {[1..n -> RawBytes] : n \in 0..MaxRawLen}

(* A record whose optional fields all hold something. *)
DirtyPacket ==
    [ZeroPacket EXCEPT !.device_name = <<90, 90, 90>>, !.tx_power = 7,
                       !.appearance = 9, !.flags = 255, !.company_id = 5,
                       !.mfg_data = <<1, 2, 3>>, !.mfg_data_len = 3,
                       !.service_uuids = <<7, 8>>, !.num_services = 2]

PriorPackets == {ZeroPacket, DirtyPacket}

(* The fields an encoder may put in a payload: kind, tag, a number and  *)
(* a list (name characters, manufacturer payload, 16-bit service ids).  *)
FieldItems ==
    { [kind |-> "flags", tag |-> AD_TYPE_FLAGS, num |-> 6, list |-> <<>>],
      [kind |-> "flags", tag |-> AD_TYPE_FLAGS, num |-> 26, list |-> <<>>],
      [kind |-> "name", tag |-> AD_TYPE_COMPLETE_NAME, num |-> 0, list |-> <<65, 66>>],
      [kind |-> "name", tag |-> AD_TYPE_SHORT_NAME, num |-> 0, list |-> <<67>>],
      [kind |-> "tx", tag |-> AD_TYPE_TX_POWER, num |-> -5, list |-> <<>>],
      [kind |-> "tx", tag |-> AD_TYPE_TX_POWER, num |-> 4, list |-> <<>>],
      [kind |-> "appearance", tag |-> AD_TYPE_APPEARANCE, num |-> 833, list |-> <<>>],
      [kind |-> "uuid16", tag |-> AD_TYPE_UUID16_COMPLETE, num |-> 0, list |-> <<6159>>],
      [kind |-> "uuid16", tag |-> AD_TYPE_UUID16_INCOMPLETE, num |-> 0,
       list |-> <<6159, 4660>>],
      [kind |-> "mfg", tag |-> AD_TYPE_MFG_DATA, num |-> 76, list |-> <<2, 21>>],
      [kind |-> "mfg", tag |-> AD_TYPE_MFG_DATA, num |-> 1535, list |-> <<>>],
      [kind |-> "other", tag |-> 22, num |-> 0, list |-> <<1, 2>>] }

Lo(n) == n % UINT8_RANGE

Hi(n) == (n \div UINT8_RANGE) % UINT8_RANGE

RECURSIVE Le16Bytes(_)
Le16Bytes(ids) ==
    IF ids = <<>> THEN <<>>
    ELSE <<Lo(Head(ids)), Hi(Head(ids))>> \o Le16Bytes(Tail(ids))

(* One entry: its length byte, its tag and its value bytes. *)
EncodeItem(it) ==
    LET value ==
          CASE it.kind = "flags" -> <<it.num>>
            [] it.kind = "tx" -> <<it.num % UINT8_RANGE>>
            [] it.kind = "appearance" -> <<Lo(it.num), Hi(it.num)>>
            [] it.kind = "uuid16" -> Le16Bytes(it.list)
            [] it.kind = "mfg" -> <<Lo(it.num), Hi(it.num)>> \o it.list
            [] OTHER -> it.list
    IN <<Len(value) + 1, it.tag>> \o value

RECURSIVE EncodeAll(_)
EncodeAll(items) ==
    IF items = <<>> THEN <<>>
    ELSE EncodeItem(Head(items)) \o EncodeAll(Tail(items))

(* Up to MaxItems fields, each kind at most once, in any order. *)
ItemSeqs ==
    {its \in UNION {[1..n -> FieldItems] : n \in 1..MaxItems} :
        \A a, b \in 1..Len(its) : a # b => its[a].kind # its[b].kind}

(* Two entries with the same tag, one after the other. *)
RepeatPayloads ==
    {EncodeAll(<<its[1], its[2]>>) :
        its \in {x \in FieldItems \X FieldItems : x[1].tag = x[2].tag}}

(* Fields at, just under and up to MaxExcess over the sizes of the     *)
(* record's arrays: names, manufacturer payloads and service-id lists. *)
LongItems ==
    {[kind |-> "name", tag |-> AD_TYPE_COMPLETE_NAME, num |-> 0,
      list |-> [k \in 1..n |-> 65 + (k % 26)]] :
        n \in (DEVICE_NAME_SIZE - 2)..(DEVICE_NAME_SIZE - 1 + MaxExcess)}
    \cup
    {[kind |-> "mfg", tag |-> AD_TYPE_MFG_DATA, num |-> 76,
      list |-> [k \in 1..n |-> k]] :
        n \in (MFG_DATA_SIZE - 1)..(MFG_DATA_SIZE + MaxExcess)}
    \cup
    {[kind |-> "uuid16", tag |-> AD_TYPE_UUID16_COMPLETE, num |-> 0,
      list |-> [k \in 1..n |-> 4096 + k]] :
        n \in (SERVICE_UUIDS_SIZE - 1)..(SERVICE_UUIDS_SIZE + MaxExcess)}

(* One long field, or a service-id list followed by a long one. *)
LongSeqs ==
    {<<it>> : it \in LongItems}
    \cup {<<[kind |-> "uuid16", tag |-> AD_TYPE_UUID16_INCOMPLETE, num |-> 0,
             list |-> <<6159, 4660>>], it>> :
            it \in {x \in LongItems : x.kind = "uuid16"}}

LongPayloads == {EncodeAll(its) : its \in LongSeqs}

(* Payloads of the greatest length a uint8_t payload_len allows: all   *)
(* entries of length 1, one entry declaring 255 bytes, entries of      *)
(* length 2 and a payload of zeros.                                    *)
FullPayloads ==
    {[k \in 1..PAYLOAD_SIZE |-> v] : v \in {0, 1, 2, PAYLOAD_SIZE}}

ParseInputs ==
    {[payload |-> p, items |-> <<>>] :
        p \in RawPayloads \cup {NULL} \cup RepeatPayloads \cup LongPayloads
                \cup FullPayloads}
      \cup {[payload |-> EncodeAll(its), items |-> its] : its \in ItemSeqs}

ParseInputInit ==
    \E inp \in ParseInputs, prior \in PriorPackets :
      \E b \in BeyondChoices(inp.payload, Len(inp.payload)) :
        /\ pa_payload = inp.payload
        /\ pa_len = Len(inp.payload)
        /\ pa_items = inp.items
        /\ pa_beyond = b
        /\ pa_prior = prior
        /\ pa_s = [i |-> 0, packet |-> prior, reads |-> {}, done |-> FALSE, n |-> 0]
        /\ pa_pc = "entry"

(* Line 58: the early return. *)
ParseReturnEarly ==
    /\ pa_pc = "entry"
    /\ pa_payload = NULL \/ pa_len = 0
    /\ pa_pc' = "ret"
    /\ pa_s' = [pa_s EXCEPT !.done = TRUE]
    /\ UNCHANGED <<ringVars, pa_payload, pa_len, pa_beyond, pa_prior, pa_items>>

(* Lines 62-69 *)
ParseInitFields ==
    /\ pa_pc = "entry"
    /\ ~(pa_payload = NULL \/ pa_len = 0)
    /\ pa_pc' = "loop"
    /\ pa_s' = ParseStart(pa_s.packet)
    /\ UNCHANGED <<ringVars, pa_payload, pa_len, pa_beyond, pa_prior, pa_items>>

(* Lines 72-139: the loop condition holds, the entry is not refused. *)
ParseEntry ==
    /\ pa_pc = "loop"
    /\ LoopCond(pa_s.i, pa_len)
    /\ ~BreakCond(pa_s.i, Rd(pa_payload, pa_len, pa_beyond, pa_s.i), pa_len)
    /\ pa_s' = ParseStep(pa_payload, pa_len, pa_beyond, pa_s)
    /\ UNCHANGED <<ringVars, pa_payload, pa_len, pa_beyond, pa_prior, pa_items, pa_pc>>

(* Lines 72-77: the loop condition holds, the entry is refused. *)
ParseBreak ==
    /\ pa_pc = "loop"
    /\ LoopCond(pa_s.i, pa_len)
    /\ BreakCond(pa_s.i, Rd(pa_payload, pa_len, pa_beyond, pa_s.i), pa_len)
    /\ pa_s' = ParseStep(pa_payload, pa_len, pa_beyond, pa_s)
    /\ pa_pc' = "ret"
    /\ UNCHANGED <<ringVars, pa_payload, pa_len, pa_beyond, pa_prior, pa_items>>

(* Line 72: the loop condition fails. *)
ParseLoopEnd ==
    /\ pa_pc = "loop"
    /\ ~LoopCond(pa_s.i, pa_len)
    /\ pa_s' = ParseStep(pa_payload, pa_len, pa_beyond, pa_s)
    /\ pa_pc' = "ret"
    /\ UNCHANGED <<ringVars, pa_payload, pa_len, pa_beyond, pa_prior, pa_items>>

NextParse ==
    \/ ParseReturnEarly
    \/ ParseInitFields
    \/ ParseEntry
    \/ ParseBreak
    \/ ParseLoopEnd

InitParse == RingInit /\ ParseInputInit

SpecParse == InitParse /\ [][NextParse]_vars

(* The payloads the decoder is run on to see that it returns: every    *)
(* byte sequence up to MaxFairLen, the repeated fields (service-id     *)
(* lists among them), the names and manufacturer payloads longer than  *)
(* the record's arrays, and the full-length payloads.                  *)
FairLongPayloads ==
    {EncodeAll(<<it>>) : it \in {x \in LongItems : x.kind # "uuid16"}}

FairPayloads ==
    UNION {[1..n -> RawBytes] : n \in 0..MaxFairLen}
      \cup {NULL} \cup RepeatPayloads \cup FairLongPayloads \cup FullPayloads

InitParseFair ==
    /\ RingInit
    /\ \E p \in FairPayloads :
         \E b \in BeyondChoices(p, Len(p)) :
          /\ pa_payload = p
          /\ pa_len = Len(p)
          /\ pa_items = <<>>
          /\ pa_beyond = b
          /\ pa_prior = ZeroPacket
          /\ pa_s = [i |-> 0, packet |-> ZeroPacket, reads |-> {}, done |-> FALSE,
                     n |-> 0]
          /\ pa_pc = "entry"

(* The decoder is not held up: it is ordinary code that, once called,  *)
(* keeps executing.                                                    *)
SpecParseFair == InitParseFair /\ [][NextParse]_vars /\ WF_vars(NextParse)

ProducerNext ==
    \/ \E which \in {"addr", "ad"} : ScannerNullArg(which)
    \/ ScannerNullReturn
    \/ \E data \in {"ok", "null", "empty"} : ScannerDeviceFound(data)
    \/ \E bad \in {"mac", "payload", "len"} : ApiIngestEx(bad)
    \/ IngestReject
    \/ IngestBuild
    \/ EnqueueEnter
    \/ EnqueueBody
    \/ EnqueueExit
    \/ IngestReturn

DrainNext ==
    \/ DequeueEnter
    \/ DequeueBody
    \/ DequeueExit
    \/ SendAndDelay
    \/ IdleDelay
    \/ StatusSkip

StatusNext ==
    \/ StatusBegin
    \/ StatusPrint
    \/ StatusEnd

GetStatsNext ==
    \/ GetStatsEnter
    \/ GetStatsTotal
    \/ GetStatsOverflow
    \/ GetStatsCount
    \/ GetStatsExit

(* The producer and the consumer task. *)
Next == MainNext \/ ProducerNext \/ DrainNext \/ StatusNext

Spec == Init /\ [][Next]_vars

(* The scanner reporting broadcasts that carry data, the consumer's     *)
(* drain loop and a task calling sniffer_get_stats.                     *)
NextStats ==
    \/ MainNext
    \/ ScannerDeviceFound("ok")
    \/ IngestBuild
    \/ EnqueueEnter
    \/ EnqueueBody
    \/ EnqueueExit
    \/ IngestReturn
    \/ DrainNext
    \/ GetStatsNext

SpecStats == Init /\ [][NextStats]_vars

(* The scanner reporting broadcasts that carry data, and an old-style   *)
(* caller of sniffer_on_packet_received.                                *)
NextLegacy ==
    \/ MainNext
    \/ ScannerDeviceFound("ok")
    \/ \E bad \in {"none", "mac", "payload", "len"} : LegacyIngest(bad)
    \/ IngestReject
    \/ IngestBuild
    \/ EnqueueEnter
    \/ EnqueueBody
    \/ EnqueueExit
    \/ IngestReturn

SpecLegacy == Init /\ [][NextLegacy]_vars

(* The scanner reports at most MaxPops broadcasts and then none: every  *)
(* record pushed can be popped.                                         *)
DrainBroadcast ==
    /\ Len(h_pushed) < MaxPops
    /\ ScannerDeviceFound("ok")

(* The steps of an ingest call once the scanner has made it. *)
IngestSteps ==
    \/ IngestBuild
    \/ EnqueueEnter
    \/ EnqueueBody
    \/ EnqueueExit
    \/ IngestReturn

(* sniffer_task: the drain loop and the status line. *)
TaskSteps == DrainNext \/ StatusNext

NextDrain ==
    \/ MainNext
    \/ DrainBroadcast
    \/ IngestSteps
    \/ TaskSteps

(* The ingest call between taskENTER_CRITICAL and taskEXIT_CRITICAL. *)
InCriticalSteps == EnqueueBody \/ EnqueueExit

(* aos_loop_proc is ordinary code that keeps executing; nothing runs in *)
(* place of an ingest call that is inside its critical section, so it   *)
(* leaves it; sniffer_task, once created, is scheduled again and again: *)
(* it only ever sleeps in vTaskDelay for a fixed time.  Nothing obliges *)
(* the radio to report another broadcast, nor an ingest call outside    *)
(* its critical section to go on.                                       *)
SpecDrainFair ==
    /\ Init
    /\ [][NextDrain]_vars
    /\ WF_vars(MainNext)
    /\ WF_vars(InCriticalSteps)
    /\ WF_vars(TaskSteps)

(* ================================================================== *)
(* Properties                                                           *)
(* ================================================================== *)
(* The records the ring holds, oldest first: count slots from tail on. *)
Held(b) == [k \in 1..b.count |-> Slot(b, (b.tail + k - 1) % SNIFFER_BUFFER_SIZE)]

HeldIds(b) == [k \in 1..b.count |-> Held(b)[k].timestamp]

Range(f) == {f[k] : k \in DOMAIN f}

(* C1: in every reachable state the occupancy count lies in 0..SNIFFER_BUFFER_SIZE. *)
C1_OccupancyBounded ==
    /\ g_packet_buffer.count >= 0
    /\ g_packet_buffer.count <= SNIFFER_BUFFER_SIZE

(* A push at capacity and a pop have both happened and the ring is full. *)
C1_Witness ==
    /\ g_packet_buffer.count = SNIFFER_BUFFER_SIZE
    /\ g_packet_buffer.overflow_count >= 1
    /\ Len(h_delivered) >= 1

(* C2: the records pop returns come out in the order they were pushed, each at *)
(* most once; a pushed record not returned was evicted by a push at capacity or *)
(* is still held; with no eviction and the ring drained, the records returned   *)
(* are exactly the records pushed, in insertion order.  Records are told apart  *)
(* by their timestamps, which grow from one push to the next, so "in the order  *)
(* pushed, at most once" is "with growing timestamps".                          *)
C2_FifoOrder ==
    /\ \A k \in 1..(Len(h_pushed) - 1) : h_pushed[k] < h_pushed[k + 1]
    /\ \A k \in 1..(Len(h_delivered) - 1) : h_delivered[k] < h_delivered[k + 1]
    /\ Range(h_delivered) \subseteq Range(h_pushed)
    /\ Range(h_pushed) \ Range(h_delivered)
          = h_evicted \cup Range(HeldIds(g_packet_buffer))
    /\ (h_evicted = {} /\ g_packet_buffer.count = 0) => h_delivered = h_pushed

(* Records were returned both before and after an eviction. *)
C2_Witness ==
    /\ Len(h_delivered) >= 2
    /\ h_evicted # {}
    /\ \E k \in 1..Len(h_delivered) : \A e \in h_evicted : h_delivered[k] > e
    /\ \E k \in 1..Len(h_delivered) : \E e \in h_evicted : h_delivered[k] < e

(* K <= N records pushed into the empty ring and popped K times. *)
C2_WitnessDrained ==
    /\ Len(h_pushed) = MaxPops
    /\ h_delivered = h_pushed
    /\ g_packet_buffer.count = 0

(* C3: a push with the occupancy at capacity completes; after it the occupancy *)
(* is still N, overflow_count is larger by exactly 1, the oldest held record is *)
(* gone, the others keep their order and the pushed record is the newest; an    *)
(* evicted record is never returned by pop.                                     *)
C3_PushAtCapacity ==
    /\ [](Range(h_delivered) \cap h_evicted = {})
    /\ [](pcP = "enqueue_body" => ENABLED EnqueueBody)
    /\ [][(/\ pcP = "enqueue_body"
           /\ pcP' = "enqueue_exit"
           /\ g_packet_buffer.count = SNIFFER_BUFFER_SIZE)
          => (/\ g_packet_buffer'.count = SNIFFER_BUFFER_SIZE
              /\ g_packet_buffer'.overflow_count = g_packet_buffer.overflow_count + 1
              /\ Held(g_packet_buffer') = Tail(Held(g_packet_buffer)) \o <<packetP>>)]_vars

(* A push at capacity has just run. *)
C3_Witness ==
    /\ pcP = "enqueue_exit"
    /\ g_packet_buffer.overflow_count >= 2
    /\ g_packet_buffer.count = SNIFFER_BUFFER_SIZE
    /\ Len(h_delivered) >= 1

(* C4: packet_count is the number of pushes made, overflow_count the number of *)
(* pushes made with the occupancy at capacity; a step of the consumer or of     *)
(* sniffer_get_stats changes neither.                                           *)
C4_Counters ==
    /\ [](g_packet_buffer.packet_count = Len(h_pushed))
    /\ [](g_packet_buffer.overflow_count = h_full_pushes)
    /\ [][(pcC' # pcC \/ pcS' # pcS)
          => (/\ g_packet_buffer'.packet_count = g_packet_buffer.packet_count
              /\ g_packet_buffer'.overflow_count = g_packet_buffer.overflow_count)]_vars

(* Pushes, pushes at capacity, a pop and a statistics call have happened. *)
C4_Witness ==
    /\ g_packet_buffer.overflow_count >= 2
    /\ g_packet_buffer.packet_count > SNIFFER_BUFFER_SIZE
    /\ Len(h_delivered) >= 1
    /\ pcS = "exit"

(* What the claim calls an invalid ingest call. *)
InvalidArgs(a) == a.mac = NULL \/ a.payload = NULL \/ a.payload_len = 0

(* C5: while an ingest call with a null address, a null payload or payload_len *)
(* 0 is in progress, no step of the producer changes head, tail, count, the     *)
(* stored records, packet_count or overflow_count, and the call returns without *)
(* reaching sniffer_enqueue_packet.                                             *)
C5_InvalidIngestNoOp ==
    [][(pcP \notin {"idle", "null_addr", "null_ad"} /\ InvalidArgs(argsP))
       => (/\ pcP' \in {"ex", "ex_return", "idle"}
           /\ (pcC' = pcC => g_packet_buffer' = g_packet_buffer))]_vars

(* An invalid call has returned while the ring held records. *)
C5_Witness ==
    /\ pcP = "ex_return"
    /\ InvalidArgs(argsP)
    /\ g_packet_buffer.count >= 2
    /\ g_packet_buffer.packet_count >= 2

(* C6: the decoder reads no payload byte at an index >= payload_len. *)
C6_ReadsInBounds ==
    \A k \in pa_s.reads : 0 <= k /\ k < pa_len

(* An entry of total size L+1 at offset i does not lie within the payload. *)
Overruns(i, L, payload_len) == i + L + 1 > payload_len

(* The fields of the well-formed entries before the first entry that is *)
(* empty or overruns the payload.                                       *)
RECURSIVE FieldsBeforeOverrun(_, _, _, _)
FieldsBeforeOverrun(payload, payload_len, i, packet) ==
    IF i >= payload_len THEN packet
    ELSE IF payload[i + 1] = 0 \/ Overruns(i, payload[i + 1], payload_len) THEN packet
    ELSE FieldsBeforeOverrun(payload, payload_len, i + payload[i + 1] + 1,
                             ApplyEntry(payload, payload_len, 0, i, packet).packet)

(* C7: decoding stops at an entry whose declared length overruns the payload; *)
(* the decoded fields are those of the well-formed entries before it.         *)
C7_StopsAtOverrun ==
    (pa_pc = "ret" /\ pa_payload # NULL /\ pa_len > 0)
    => pa_s.packet = FieldsBeforeOverrun(pa_payload, pa_len, 0,
                                         InitOptionalFields(pa_prior))

HasItem(items, kind) == \E k \in 1..Len(items) : items[k].kind = kind

ItemOf(items, kind) == items[CHOOSE k \in 1..Len(items) : items[k].kind = kind]

(* The fields an item sequence encodes; a field not encoded is absent. *)
Expected(items) ==
    [flags |-> IF HasItem(items, "flags") THEN ItemOf(items, "flags").num ELSE 0,
     name |-> IF HasItem(items, "name") THEN ItemOf(items, "name").list ELSE <<>>,
     tx_power |-> IF HasItem(items, "tx") THEN ItemOf(items, "tx").num
                  ELSE TX_POWER_NOT_PRESENT,
     appearance |-> IF HasItem(items, "appearance")
                    THEN ItemOf(items, "appearance").num ELSE 0,
     company_id |-> IF HasItem(items, "mfg") THEN ItemOf(items, "mfg").num ELSE 0,
     mfg |-> IF HasItem(items, "mfg") THEN ItemOf(items, "mfg").list ELSE <<>>,
     services |-> IF HasItem(items, "uuid16") THEN ItemOf(items, "uuid16").list
                  ELSE <<>>]

(* The decoded fields of a record. *)
Decoded(packet) ==
    [flags |-> packet.flags,
     name |-> CStr(packet.device_name),
     tx_power |-> packet.tx_power,
     appearance |-> packet.appearance,
     company_id |-> packet.company_id,
     mfg |-> [k \in 1..packet.mfg_data_len |-> At(packet.mfg_data, k - 1)],
     services |-> [k \in 1..packet.num_services |-> At(packet.service_uuids, k - 1)]]

(* C8: a payload that encodes fields, each once and within the caps, decodes to *)
(* exactly those fields; every field not encoded is absent.                     *)
C8_RoundTrip ==
    (pa_pc = "ret" /\ pa_items # <<>> /\ pa_payload = EncodeAll(pa_items))
    => Decoded(pa_s.packet) = Expected(pa_items)

(* The payload 02 01 06 03 09 41 42 decoded into a record that held other fields. *)
C8_Witness ==
    /\ pa_pc = "ret"
    /\ pa_payload = <<2, 1, 6, 3, 9, 65, 66>>
    /\ pa_items # <<>>
    /\ pa_prior = DirtyPacket
    /\ pa_s.packet.flags = 6
    /\ CStr(pa_s.packet.device_name) = <<65, 66>>
    /\ pa_s.packet.tx_power = TX_POWER_NOT_PRESENT
    /\ pa_s.packet.num_services = 0
    /\ pa_s.packet.mfg_data_len = 0

(* C9: the three values one sniffer_get_stats call hands back are the three    *)
(* counters of one state of the buffer: at every read, and when the call       *)
(* returns, each value read so far equals the counter it was read from.        *)
C9_StatsSnapshot ==
    /\ pcS \in {"overflow", "count", "exit"}
          => statsS.total = g_packet_buffer.packet_count
    /\ pcS \in {"count", "exit"}
          => statsS.overflow = g_packet_buffer.overflow_count
    /\ pcS = "exit" => statsS.count = g_packet_buffer.count

(* A statistics call that read a full ring after evictions and a pop. *)
C9_Witness ==
    /\ pcS = "exit"
    /\ statsS.overflow >= 1
    /\ statsS.count = SNIFFER_BUFFER_SIZE
    /\ statsS.total > SNIFFER_BUFFER_SIZE
    /\ Len(h_delivered) >= 1
    /\ pcP = "enqueue"

(* C10: whenever the producer or the consumer is about to read or write a field *)
(* of g_packet_buffer, it is inside a critical section.                         *)
C10_AccessInCritical ==
    /\ pcP = "enqueue_body" => critical = "P"
    /\ pcC \in {"dequeue_body", "print", "printed"} => critical = "C"

(* g_adv_count after the scanner's call number t (t = 0, 1, ...): the  *)
(* calls so far that were not scan responses.                           *)
AdvCountAt(t) == Cardinality({j \in 0..t : ObsAdvType(j) # BLE_SCAN_RSP})

(* What the byte after the payload of the broadcast at time t held,   *)
(* when the decoder read it.                                           *)
BeyondAt(t) ==
    IF \E e \in h_beyond : e[1] = t
    THEN (CHOOSE e \in h_beyond : e[1] = t)[2]
    ELSE 0

(* The arguments of the one ingest call made with timestamp t. *)
ScannerArgs(t) ==
    [mac |-> ObsMac(t), rssi |-> ObsRssi(t),
     channel |-> FIRST_ADV_CHANNEL + (AdvCountAt(t) % 3),
     timestamp |-> t, payload |-> ObsPayload(t),
     payload_len |-> Len(ObsPayload(t)), beyond |-> BeyondAt(t),
     adv_type |-> ObsAdvType(t), addr_type |-> ObsAddrType(t)]

(* The complete record that ingest call builds. *)
RecordOf(t) == BuildPacket(ScannerArgs(t))

(* C11: the record the consumer holds after a pop is, in every field, the    *)
(* record one ingest call built; so are the oldest and the newest record the *)
(* buffer holds.  Before the first pop the consumer holds no record.         *)
C11_RecordsWhole ==
    /\ h_delivered = <<>> => packetC = ZeroPacket
    /\ h_delivered # <<>> => packetC = RecordOf(h_delivered[Len(h_delivered)])
    /\ g_packet_buffer.count > 0 =>
          LET held == Held(g_packet_buffer)
          IN /\ held[1] = RecordOf(held[1].timestamp)
             /\ held[Len(held)] = RecordOf(held[Len(held)].timestamp)

(* A pop returned a record with decoded fields, after evictions, while the *)
(* producer had the next record built and not yet pushed.                  *)
C11_Witness ==
    /\ pcC = "send"
    /\ pcP = "enqueue"
    /\ h_evicted # {}
    /\ packetC.timestamp = 2
    /\ packetC.tx_power = -5
    /\ packetC.payload = <<2, 10, 251>>

(* C12: a pop with occupancy 0 returns 0 and changes neither the buffer (head, *)
(* tail, count, both counters, the stored records) nor the caller's record; a  *)
(* pop with occupancy > 0 returns 1 and the oldest record held, and the        *)
(* occupancy drops by exactly 1, the other records staying in their order.     *)
C12_PopResult ==
    [][(pcC = "dequeue_body" /\ pcC' = "dequeue_exit")
       => IF g_packet_buffer.count = 0
          THEN /\ resultC' = 0
               /\ g_packet_buffer' = g_packet_buffer
               /\ packetC' = packetC
          ELSE /\ resultC' = 1
               /\ packetC' = Held(g_packet_buffer)[1]
               /\ g_packet_buffer'.count = g_packet_buffer.count - 1
               /\ Held(g_packet_buffer') = Tail(Held(g_packet_buffer))]_vars

(* A pop found the buffer empty while the caller still held the record of *)
(* an earlier pop.                                                         *)
C12_Witness ==
    /\ pcC = "dequeue_exit"
    /\ resultC = 0
    /\ g_packet_buffer.count = 0
    /\ g_packet_buffer.packet_count >= 1
    /\ packetC # ZeroPacket
    /\ packetC.timestamp = h_delivered[Len(h_delivered)]

(* The record carries the arguments of the call unchanged. *)
CarriesArgs(packet, a) ==
    /\ \A j \in 0..5 : At(packet.mac, j) = a.mac[j + 1]
    /\ packet.rssi = a.rssi
    /\ packet.channel = a.channel
    /\ packet.timestamp = a.timestamp
    /\ packet.adv_type = a.adv_type
    /\ packet.addr_type = a.addr_type
    /\ packet.payload_len = a.payload_len
    /\ \A j \in 0..(a.payload_len - 1) : At(packet.payload, j) = a.payload[j + 1]

(* How many of the pushes made carry timestamp t. *)
PushesOf(t) == Cardinality({k \in 1..Len(h_pushed) : h_pushed[k] = t})

(* C13: an ingest call with an address, a payload and payload_len >= 1 goes on *)
(* to sniffer_enqueue_packet and pushes exactly one record: none before its    *)
(* push, one when it returns.  The record pushed is the newest held; it        *)
(* carries mac, rssi, channel, timestamp, adv_type, addr_type, payload_len and *)
(* the payload bytes of the call, and its decoded fields are those             *)
(* parse_advertisement_data gives for that payload.                            *)
C13_ValidIngest ==
    /\ []((pcP \in {"ex", "enqueue", "enqueue_body"} /\ ~InvalidArgs(argsP))
           => PushesOf(argsP.timestamp) = 0)
    /\ []((pcP \in {"enqueue_exit", "ex_return"} /\ ~InvalidArgs(argsP))
           => PushesOf(argsP.timestamp) = 1)
    /\ [][(pcP = "ex" /\ ~InvalidArgs(argsP) /\ pcP' # pcP) => pcP' = "enqueue"]_vars
    /\ [][(pcP = "enqueue_body" /\ pcP' = "enqueue_exit")
          => LET held == Held(g_packet_buffer')
                 newest == held[Len(held)]
             IN /\ g_packet_buffer'.packet_count = g_packet_buffer.packet_count + 1
                /\ CarriesArgs(newest, argsP)
                /\ Decoded(newest)
                     = Decoded(parse_advertisement_data(argsP.payload, argsP.payload_len,
                                                        argsP.beyond, ZeroPacket))]_vars

(* A valid call that reported a directed advertisement from a random    *)
(* address has returned, its record pushed into the full buffer.        *)
C13_Witness ==
    /\ pcP = "ex_return"
    /\ ~InvalidArgs(argsP)
    /\ argsP.addr_type = 1
    /\ argsP.adv_type = 1
    /\ g_packet_buffer.count = SNIFFER_BUFFER_SIZE
    /\ g_packet_buffer.overflow_count >= 1
    /\ Held(g_packet_buffer)[SNIFFER_BUFFER_SIZE].timestamp = argsP.timestamp

(* C14: when a payload holds two entries with the same tag, the decoded value *)
(* of that field is the value of the second entry alone.                      *)
C14_LastWins ==
    \A a, b \in FieldItems :
        (pa_pc = "ret" /\ a.tag = b.tag /\ pa_payload = EncodeAll(<<a, b>>))
        => Decoded(pa_s.packet) = Expected(<<b>>)

FirstN(list, n) == SubSeq(list, 1, IF Len(list) < n THEN Len(list) ELSE n)

(* All service ids a sequence of fields carries, in the order met. *)
RECURSIVE AllServices(_)
AllServices(items) ==
    IF items = <<>> THEN <<>>
    ELSE (IF Head(items).kind = "uuid16" THEN Head(items).list ELSE <<>>)
           \o AllServices(Tail(items))

(* The encoded fields cut to the caps: 31 name characters, 64 bytes of *)
(* manufacturer payload, 8 service ids.                                 *)
Capped(items) ==
    [Expected(items) EXCEPT !.name = FirstN(@, DEVICE_NAME_SIZE - 1),
                            !.mfg = FirstN(@, MFG_DATA_SIZE),
                            !.services = FirstN(AllServices(items), SERVICE_UUIDS_SIZE)]

(* C15: a manufacturer payload of more than 64 bytes decodes to its first 64  *)
(* with mfg_data_len = 64, a name of more than 31 characters to its first 31  *)
(* and a terminator, more than 8 service ids to the first 8 met; and in every *)
(* state of the decoder mfg_data_len <= 64, num_services <= 8 and the name is *)
(* at most 31 characters long with its terminator inside device_name[].       *)
C15_Caps ==
    /\ pa_s.packet.mfg_data_len <= MFG_DATA_SIZE
    /\ pa_s.packet.num_services <= SERVICE_UUIDS_SIZE
    /\ Len(pa_s.packet.service_uuids) <= SERVICE_UUIDS_SIZE
    /\ Len(pa_s.packet.mfg_data) <= MFG_DATA_SIZE
    /\ Len(pa_s.packet.device_name) <= DEVICE_NAME_SIZE - 1
    /\ \A its \in LongSeqs :
          (pa_pc = "ret" /\ pa_payload = EncodeAll(its))
          => Decoded(pa_s.packet) = Capped(its)

(* A name of 33 characters was decoded to its first 31. *)
C15_Witness ==
    /\ pa_pc = "ret"
    /\ pa_len = DEVICE_NAME_SIZE + 1 + 2
    /\ At(pa_payload, 1) = AD_TYPE_COMPLETE_NAME
    /\ Len(CStr(pa_s.packet.device_name)) = DEVICE_NAME_SIZE - 1
    /\ pa_prior = DirtyPacket

(* 2 + 10 service ids were met and the first 8 kept. *)
C15_WitnessServices ==
    /\ pa_pc = "ret"
    /\ pa_len = 6 + 2 + 2 * (SERVICE_UUIDS_SIZE + 2)
    /\ pa_s.packet.num_services = SERVICE_UUIDS_SIZE
    /\ At(pa_s.packet.service_uuids, 0) = 6159
    /\ At(pa_s.packet.service_uuids, SERVICE_UUIDS_SIZE - 1) = 4096 + 6

(* 66 bytes of manufacturer payload were decoded to the first 64. *)
C15_WitnessMfg ==
    /\ pa_pc = "ret"
    /\ pa_len = MFG_DATA_SIZE + 2 + 4
    /\ pa_s.packet.mfg_data_len = MFG_DATA_SIZE
    /\ At(pa_s.packet.mfg_data, MFG_DATA_SIZE - 1) = MFG_DATA_SIZE

(* C16: no step of the running program makes packet_count or overflow_count  *)
(* smaller; sniffer_init, which zeroes them, runs while sniffer_task is not   *)
(* created and nothing has been pushed, and is never reached again.           *)
C16_CountersMonotone ==
    /\ [][/\ g_packet_buffer'.packet_count >= g_packet_buffer.packet_count
          /\ g_packet_buffer'.overflow_count >= g_packet_buffer.overflow_count]_vars
    /\ [][(pcM = "sniffer_init" /\ pcM' # pcM)
          => (/\ pcC = "not_created"
              /\ pcP = "idle"
              /\ h_pushed = <<>>
              /\ g_packet_buffer.packet_count = 0)]_vars
    /\ [][pcM' = "sniffer_init" => pcM = "sniffer_init"]_vars
    /\ [](pcM # "run" => g_packet_buffer.packet_count = 0)

(* After startup: pushes, pushes at capacity and a pop were made and a *)
(* statistics call is reading the counters.                            *)
C16_Witness ==
    /\ pcM = "run"
    /\ pcS = "count"
    /\ pcC = "send"
    /\ g_packet_buffer.packet_count = SNIFFER_BUFFER_SIZE + 2
    /\ g_packet_buffer.overflow_count >= 1

(* The line of one record: mac, rssi, channel, timestamp, payload_len, *)
(* payload and device_name, in that order.                             *)
SerialLine(packet) ==
    <<packet.mac, packet.rssi, packet.channel, packet.timestamp,
      packet.payload_len, packet.payload, CStr(packet.device_name)>>

(* C17: once the consumer is past sniffer_send_packet_serial, the serial *)
(* output holds one line for every record dequeued, in order, each line   *)
(* carrying that record's fields.                                         *)
C17_OneLinePerRecord ==
    pcC \notin {"dequeue_exit", "send"}
    => /\ Len(serial_out) = Len(h_delivered)
       /\ \A k \in 1..Len(serial_out) :
             serial_out[k] = SerialLine(RecordOf(h_delivered[k]))

(* The step in which an old-style caller's call of                      *)
(* sniffer_on_packet_received calls sniffer_on_packet_received_ex.      *)
LegacyStep == pcP = "idle" /\ pcP' = "ex" /\ h_legacy' # h_legacy

(* The call in progress was made through sniffer_on_packet_received. *)
InLegacyCall ==
    /\ pcP \in {"ex", "enqueue", "enqueue_body", "enqueue_exit", "ex_return"}
    /\ argsP.timestamp \in h_legacy

(* C18: a call of sniffer_on_packet_received hands its six arguments on     *)
(* with adv_type 0 and addr_type 0 and, step by step, does to the buffer    *)
(* what sniffer_on_packet_received_ex does with those eight arguments: the  *)
(* one step that changes the buffer leaves it as that function leaves it,   *)
(* and a call that rejects its arguments changes nothing and never reaches  *)
(* sniffer_enqueue_packet.                                                  *)
C18_LegacyAdapter ==
    /\ [][LegacyStep
           => (/\ argsP'.adv_type = 0 /\ argsP'.addr_type = 0
               /\ argsP'.timestamp = now_ms
               /\ argsP'.rssi = ObsRssi(now_ms)
               /\ argsP'.channel = g_current_channel
               /\ argsP'.mac \in {NULL, ObsMac(now_ms)}
               /\ argsP'.payload \in {NULL, ObsPayload(now_ms)}
               /\ argsP'.payload_len \in {0, Len(ObsPayload(now_ms))}
               /\ g_packet_buffer' = g_packet_buffer)]_vars
    /\ [][(InLegacyCall /\ pcP' # pcP)
           => LET ex == [argsP EXCEPT !.adv_type = 0, !.addr_type = 0]
              IN /\ g_packet_buffer' =
                       IF pcP = "enqueue_body"
                       THEN sniffer_on_packet_received_ex(g_packet_buffer, ex)
                       ELSE g_packet_buffer
                 /\ pcP = "enqueue_body" =>
                       g_packet_buffer' =
                          sniffer_on_packet_received(g_packet_buffer, argsP.mac,
                              argsP.rssi, argsP.channel, argsP.timestamp,
                              argsP.payload, argsP.payload_len, argsP.beyond)
                 /\ InvalidArgs(ex) => pcP' \in {"ex_return", "idle"}]_vars
    /\ [](InLegacyCall => (argsP.adv_type = 0 /\ argsP.addr_type = 0))

(* An old-style call pushed its record into the full buffer, at a time at *)
(* which the scanner would have reported adv_type 1 and addr_type 1.      *)
C18_Witness ==
    /\ pcP = "ex_return"
    /\ InLegacyCall
    /\ argsP.timestamp = SNIFFER_BUFFER_SIZE + 1
    /\ now_ms = SNIFFER_BUFFER_SIZE + 2
    /\ g_packet_buffer.count = SNIFFER_BUFFER_SIZE
    /\ g_packet_buffer.overflow_count = 2
    /\ Held(g_packet_buffer)[SNIFFER_BUFFER_SIZE].timestamp = SNIFFER_BUFFER_SIZE + 1
    /\ Held(g_packet_buffer)[SNIFFER_BUFFER_SIZE].adv_type = 0
    /\ Held(g_packet_buffer)[SNIFFER_BUFFER_SIZE].addr_type = 0
    /\ ObsAdvType(SNIFFER_BUFFER_SIZE + 1) = 1

(* An old-style call without a payload has returned from               *)
(* sniffer_on_packet_received_ex and changed nothing.                  *)
C18_WitnessRejected ==
    /\ pcP = "ex_return"
    /\ InLegacyCall
    /\ argsP.payload = NULL
    /\ argsP.mac # NULL
    /\ g_packet_buffer.packet_count = SNIFFER_BUFFER_SIZE + 1

(* C19: decoding a payload of length 0 leaves every optional field absent *)
(* (name empty, tx_power -128, appearance, flags, company_id, mfg_data_len *)
(* and num_services 0), whatever the record held before the call.          *)
C19_EmptyPayloadAbsent ==
    (pa_pc = "ret" /\ pa_payload # NULL /\ pa_len = 0)
    => Decoded(pa_s.packet) = Expected(<<>>)

(* C20: every call of the decoder returns; each pass through the loop body *)
(* that does not stop the loop moves the offset forward; the passes made   *)
(* never number more than 255.                                             *)
C20_LoopTerminates ==
    /\ <>(pa_pc = "ret")
    /\ [][(pa_pc = "loop" /\ pa_pc' = "loop") => pa_s'.i > pa_s.i]_vars
    /\ [](pa_s.n <= PAYLOAD_SIZE)

(* A payload of 255 bytes was decoded in 127 passes, the most a payload *)
(* can take.                                                            *)
C20_Witness ==
    /\ pa_pc = "ret"
    /\ pa_len = PAYLOAD_SIZE
    /\ pa_s.n = PAYLOAD_SIZE \div 2
    /\ pa_s.i = PAYLOAD_SIZE - 1

(* Where the ingest callback is between line 145 and line 158, and     *)
(* sniffer_task between line 165 and line 174.                          *)
InEnqueue == pcP \in {"enqueue_body", "enqueue_exit"}

InDequeue == pcC \in {"dequeue_body", "dequeue_exit"}

(* C21: a critical section is held exactly between the first and last     *)
(* statement of one push or one pop: never while the payload is decoded   *)
(* and the local record built, never while the consumer sends, prints the *)
(* status line or sleeps, and never once the operation has returned.      *)
C21_CriticalScope ==
    /\ [](critical = "P" <=> InEnqueue)
    /\ [](critical = "C" <=> InDequeue)
    /\ [](pcP \in {"idle", "null_addr", "null_ad", "ex", "enqueue", "ex_return"}
            => critical # "P")
    /\ [](pcC \in {"loop", "send", "idle", "status", "print", "printed"}
            => critical # "C")
    /\ [][(pcP = "ex" /\ pcP' = "enqueue")
            => (critical # "P" /\ critical' # "P"
                /\ g_packet_buffer' = g_packet_buffer)]_vars
    /\ [][(pcC \in {"send", "idle", "print"} /\ pcC' # pcC)
            => (critical # "C" /\ critical' # "C"
                /\ g_packet_buffer' = g_packet_buffer)]_vars

(* The producer is inside its critical section, about to leave it, while *)
(* the consumer has a record to send; the buffer is at capacity.        *)
C21_Witness ==
    /\ critical = "P"
    /\ pcP = "enqueue_exit"
    /\ pcC = "send"
    /\ g_packet_buffer.count = SNIFFER_BUFFER_SIZE

(* The consumer is inside its critical section while the producer has   *)
(* decoded a payload and is about to push the record.                   *)
C21_WitnessPop ==
    /\ critical = "C"
    /\ pcC = "dequeue_exit"
    /\ pcP = "enqueue"
    /\ packetP.tx_power = -5

(* C22: the calls of ingest made by scanner_device_found number         *)
(* g_adv_count + g_scan_rsp_count at every moment; a callback that moves   *)
(* a counter is one with both arguments present, moves the two counters    *)
(* by one in all and makes one call of ingest carrying that broadcast; a   *)
(* callback with a null addr or a null ad changes no counter, makes no     *)
(* call and leaves the buffer alone, up to and with its return.            *)
C22_OneIngestPerBroadcast ==
    /\ [](h_scanner_calls = g_adv_count + g_scan_rsp_count)
    /\ [][(g_adv_count' # g_adv_count \/ g_scan_rsp_count' # g_scan_rsp_count)
            => (/\ pcP = "idle" /\ pcP' = "ex"
                /\ argsP'.mac # NULL
                /\ argsP'.timestamp = now_ms
                /\ g_adv_count' + g_scan_rsp_count'
                     = g_adv_count + g_scan_rsp_count + 1
                /\ h_scanner_calls' = h_scanner_calls + 1)]_vars
    /\ [][(pcP \in {"null_addr", "null_ad"} \/ pcP' \in {"null_addr", "null_ad"})
            => (/\ pcP' \in {pcP, "idle"} \/ pcP = "idle"
                /\ UNCHANGED <<scannerVars, h_scanner_calls, h_beyond, h_legacy, argsP, packetP,
                               h_pushed>>)]_vars

(* Five broadcasts were passed on, one of them a scan response, and a   *)
(* callback with a null ad is returning.                                *)
C22_Witness ==
    /\ pcP = "null_ad"
    /\ g_adv_count = 4
    /\ g_scan_rsp_count = 1
    /\ h_scanner_calls = 5
    /\ Len(h_pushed) = 5

(* A broadcast whose ad is present and whose ad->data is NULL is counted *)
(* and passed on to ingest.                                              *)
C22_WitnessNoData ==
    /\ pcP = "ex"
    /\ argsP.payload = NULL /\ argsP.mac # NULL
    /\ g_adv_count = 1
    /\ h_scanner_calls = 1

(* The slots of packets[] that hold a record: count of them from tail. *)
HeldSlots(b) == {(b.tail + k) % SNIFFER_BUFFER_SIZE : k \in 0..(b.count - 1)}

OutstandingInOrder ==
    LET out == Outstanding
    IN SelectSeq(h_pushed, LAMBDA t : t \in out)

(* C23: head and tail are indices of packets[], head is count slots past  *)
(* tail around the ring, the records pushed and neither popped nor evicted *)
(* are the count slots from tail in the order pushed, and the slot the     *)
(* next push writes holds a record only when the ring is full, where it is *)
(* the oldest one, the one that push evicts.                               *)
C23_RingShape ==
    LET b == g_packet_buffer
    IN /\ b.head \in 0..(SNIFFER_BUFFER_SIZE - 1)
       /\ b.tail \in 0..(SNIFFER_BUFFER_SIZE - 1)
       /\ b.count \in 0..SNIFFER_BUFFER_SIZE
       /\ b.head = (b.tail + b.count) % SNIFFER_BUFFER_SIZE
       /\ Cardinality(HeldSlots(b)) = b.count
       /\ HeldIds(b) = OutstandingInOrder
       /\ b.head \in HeldSlots(b)
            => (b.count = SNIFFER_BUFFER_SIZE /\ b.head = b.tail)

(* The ring has wrapped: 202 pushes, two of them evicting, then two pops. *)
C23_Witness ==
    /\ g_packet_buffer.head = 2
    /\ g_packet_buffer.tail = 4
    /\ g_packet_buffer.count = SNIFFER_BUFFER_SIZE - 2
    /\ critical = "none"

(* The ring is full with head on the oldest record, past slot 0. *)
C23_WitnessFull ==
    /\ g_packet_buffer.count = SNIFFER_BUFFER_SIZE
    /\ g_packet_buffer.head = 3
    /\ g_packet_buffer.tail = 3

(* C24: once the scanner reports no more broadcasts the buffer becomes    *)
(* empty and stays empty; a pop from the empty buffer returns 0 and leaves *)
(* the buffer as it is; sniffer_task comes back to the head of its loop    *)
(* again and again, from the branch that sends a record and from the one   *)
(* that sleeps on an empty buffer, which it takes again and again.         *)
C24_DrainsThenIdles ==
    /\ <>[](g_packet_buffer.count = 0)
    /\ [][(pcC = "dequeue_body" /\ pcC' = "dequeue_exit"
             /\ g_packet_buffer.count = 0)
            => (resultC' = 0 /\ g_packet_buffer' = g_packet_buffer)]_vars
    /\ []<>(pcC = "loop")
    /\ []<>(pcC = "idle")
    /\ (pcC = "send") ~> (pcC = "loop")
    /\ (pcC = "idle") ~> (pcC = "loop")

(* Every record pushed was popped and sniffer_task, having found the    *)
(* buffer empty, is in its idle branch.                                 *)
C24_Witness ==
    /\ pcC = "idle"
    /\ g_packet_buffer.count = 0
    /\ Len(h_pushed) = MaxPops
    /\ Len(h_delivered) = MaxPops
    /\ pcP = "idle"

====
